---- MODULE Spec2Model ----
(***************************************************************************)
(* Stack-trace capture of runtime/lib/stacktrace.cc.                       *)
(*                                                                         *)
(* A thread's stack is a sequence of frames, innermost first.  A capture   *)
(* is a native call that runs to completion on the thread whose stack it   *)
(* walks; each statement of the capture functions is one step here, so     *)
(* that the collector and other threads interleave between them.           *)
(* ASSERT is modelled as it behaves where it is compiled in: a failed      *)
(* assertion ends the process (pc = "fatal").                              *)
(***************************************************************************)
EXTENDS Integers, Sequences, FiniteSets, TLC

\* ---------------------------------------------------------------- bounds
MaxDepth == 3        \* frames on the stack of the thread of Spec
MaxSkip == 4         \* largest skip count passed to a capture in Spec
MaxDepthMT == 2      \* frames on each stack of SpecMT
MaxSkipMT == 1       \* largest explicit skip count in SpecMT

Threads == {1, 2}
MainThread == {1}

\* The default argument `skip_frames = 1` of CurrentStackTrace.
DefaultSkipFrames == 1

NULL == 0

\* ---------------------------------------------------------------- frames
\* Code::PayloadStart(): the address at which a code object's instructions begin.
PayloadStart(code) == code * 16

DartFrame(code, off) == [dart |-> TRUE, code |-> code, pc |-> PayloadStart(code) + off]
StubFrame == [dart |-> FALSE, code |-> NULL, pc |-> 0]

\* The frames a thread may push: thread-specific code in SpecMT.
FrameKinds == {DartFrame(1, 1), DartFrame(2, 2), StubFrame}
FrameKindsOf(t) == {DartFrame(t, 1), StubFrame}

\* StackFrame::IsDartFrame()
IsDartFrame(f) == f.dart
\* StackFrame::LookupDartCode()
LookupDartCode(f) == f.code
\* frame->pc() - code.PayloadStart()
PcOffset(f) == f.pc - PayloadStart(LookupDartCode(f))

\* StackFrameIterator::NextFrame(): the index of the frame after i, NULL past the end.
NextFrame(s, i) == IF i < Len(s) THEN i + 1 ELSE NULL

\* ------------------------------------------------ StackTraceUtils (vm/stack_trace.cc)
RECURSIVE CountFramesFrom(_, _, _)
CountFramesFrom(s, i, skip) ==
  IF i = NULL THEN 0
  ELSE IF ~IsDartFrame(s[i]) THEN CountFramesFrom(s, NextFrame(s, i), skip)
  ELSE IF skip > 0 THEN CountFramesFrom(s, NextFrame(s, i), skip - 1)
  ELSE 1 + CountFramesFrom(s, NextFrame(s, i), 0)

\* Frame Counter: the managed frames left after skipping the first `skip` of them.
CountFrames(s, skip) == CountFramesFrom(s, NextFrame(s, 0), skip)

RECURSIVE CollectFramesFrom(_, _, _, _, _, _, _, _)
CollectFramesFrom(s, i, codes, offs, array_offset, count, skip, collected) ==
  IF i = NULL \/ collected >= count
  THEN [code_array |-> codes, pc_offset_array |-> offs, collected |-> collected]
  ELSE IF ~IsDartFrame(s[i])
  THEN CollectFramesFrom(s, NextFrame(s, i), codes, offs, array_offset, count, skip, collected)
  ELSE IF skip > 0
  THEN CollectFramesFrom(s, NextFrame(s, i), codes, offs, array_offset, count, skip - 1, collected)
  ELSE CollectFramesFrom(s, NextFrame(s, i),
         [codes EXCEPT ![array_offset + 1] = LookupDartCode(s[i])],
         [offs EXCEPT ![array_offset + 1] = PcOffset(s[i])],
         array_offset + 1, count, skip, collected + 1)

\* Frame Collector, fixed variant: writes into the pre-sized arrays from
\* array_offset on, at most `count` frames, and returns how many it wrote.
CollectFrames(s, codes, offs, array_offset, count, skip) ==
  CollectFramesFrom(s, NextFrame(s, 0), codes, offs, array_offset, count, skip, 0)

RECURSIVE CollectFramesLazyFrom(_, _, _, _, _)
CollectFramesLazyFrom(s, i, codes, offs, skip) ==
  IF i = NULL THEN [code_list |-> codes, pc_offset_list |-> offs]
  ELSE IF ~IsDartFrame(s[i]) THEN CollectFramesLazyFrom(s, NextFrame(s, i), codes, offs, skip)
  ELSE IF skip > 0 THEN CollectFramesLazyFrom(s, NextFrame(s, i), codes, offs, skip - 1)
  ELSE CollectFramesLazyFrom(s, NextFrame(s, i),
         Append(codes, LookupDartCode(s[i])), Append(offs, PcOffset(s[i])), skip)

\* Frame Collector, growable variant: appends to the growable buffers.
CollectFramesLazy(s, codes, offs, skip) ==
  CollectFramesLazyFrom(s, NextFrame(s, 0), codes, offs, skip)

\* Array::New(len) / TypedData::New(kUintPtrCid, len): len null / zero slots.
ArrayNew(len) == [i \in 1..len |-> NULL]
TypedDataNew(len) == [i \in 1..len |-> 0]

VARIABLES
  FLAG_lazy_async_stacks,    \* process-wide flag, read when a capture starts
  to_space,                  \* the semispace live objects are in (flips per scavenge)
  stack,                     \* stack[t]: the frames of thread t, innermost first
  pc,                        \* pc[t]: where thread t is in its capture
  entry,                     \* entry[t]: the entry point of the running capture
  strategy,                  \* strategy[t]: "eager", "lazy" or "explicit"
  thread,                    \* thread[t]: the Thread* the capture walks
  skip_frames,               \* the capture's skip_frames argument
  stack_trace_length,        \* CurrentSyncStackTrace's stack_trace_length
  collected_frames_count,    \* CurrentSyncStackTrace's collected_frames_count
  code_array,                \* the fixed-length Array of code references
  pc_offset_array,           \* the TypedData of pc offsets (read through its handle)
  code_list,                 \* the GrowableObjectArray of code references
  pc_offset_list,            \* the GrowableArray<uword> of pc offsets
  frame,                     \* AppendFrames' frame (index into the stack, or NULL)
  af_skip,                   \* AppendFrames' own copy of skip_frames
  raw_dst,                   \* memmove's destination: the raw address DataAddr(0) gave
  copied,                    \* words memmove has copied
  no_safepoint_scope_depth,  \* per thread: open NoSafepointScopes
  snapshot,                  \* the StackTrace the capture returned
  last                       \* the previous capture completed on the unchanged stack

vars == <<FLAG_lazy_async_stacks, to_space, stack, pc, entry, strategy, thread,
          skip_frames, stack_trace_length, collected_frames_count, code_array,
          pc_offset_array, code_list, pc_offset_list, frame, af_skip, raw_dst,
          copied, no_safepoint_scope_depth, snapshot, last>>

NoSnapshot == [code_array |-> <<>>, pc_offset_array |-> <<>>]
NoCapture == [entry |-> "none", strategy |-> "none", skip |-> 0,
              code_array |-> <<>>, pc_offset_array |-> <<>>]

RECURSIVE SeqsUpTo(_, _)
SeqsUpTo(S, n) ==
  IF n = 0 THEN {<<>>}
  ELSE LET shorter == SeqsUpTo(S, n - 1)
       IN shorter \cup {<<x>> \o s : x \in S, s \in {r \in shorter : Len(r) = n - 1}}

InitLocals ==
  /\ to_space = 0
  /\ pc = [t \in Threads |-> "idle"]
  /\ entry = [t \in Threads |-> "none"]
  /\ strategy = [t \in Threads |-> "none"]
  /\ thread = [t \in Threads |-> t]
  /\ skip_frames = [t \in Threads |-> 0]
  /\ stack_trace_length = [t \in Threads |-> 0]
  /\ collected_frames_count = [t \in Threads |-> 0]
  /\ code_array = [t \in Threads |-> <<>>]
  /\ pc_offset_array = [t \in Threads |-> <<>>]
  /\ code_list = [t \in Threads |-> <<>>]
  /\ pc_offset_list = [t \in Threads |-> <<>>]
  /\ frame = [t \in Threads |-> NULL]
  /\ af_skip = [t \in Threads |-> 0]
  /\ raw_dst = [t \in Threads |-> 0]
  /\ copied = [t \in Threads |-> 0]
  /\ no_safepoint_scope_depth = [t \in Threads |-> 0]
  /\ snapshot = [t \in Threads |-> NoSnapshot]
  /\ last = [t \in Threads |-> NoCapture]

\* Thread start: no frame has been pushed yet.
Init ==
  /\ FLAG_lazy_async_stacks \in BOOLEAN
  /\ stack = [t \in Threads |-> <<>>]
  /\ InitLocals

\* Two threads, each somewhere in its own call chain.
InitMT ==
  /\ FLAG_lazy_async_stacks \in BOOLEAN
  /\ stack \in [Threads -> SeqsUpTo(FrameKindsOf(1) \cup FrameKindsOf(2), MaxDepthMT)]
  /\ \A t \in Threads : \A i \in 1..Len(stack[t]) : stack[t][i] \in FrameKindsOf(t)
  /\ InitLocals

Aborted == \E t \in Threads : pc[t] = "fatal"


\* Variable groups, for UNCHANGED.
envVars == <<FLAG_lazy_async_stacks, to_space, stack>>
callVars == <<entry, strategy, thread, skip_frames>>
eagerVars == <<stack_trace_length, collected_frames_count>>
arrayVars == <<code_array, pc_offset_array>>
listVars == <<code_list, pc_offset_list>>
walkVars == <<frame, af_skip>>
copyVars == <<raw_dst, copied, no_safepoint_scope_depth>>
outVars == <<snapshot, last>>

Goto(t, label) == pc' = [pc EXCEPT ![t] = label]

\* ------------------------------------------------------------ environment
\* The thread's own managed execution: a call pushes a frame, a return pops one.
\* Only a thread that is not inside a capture executes calls and returns.
Call(t, f) ==
  /\ ~Aborted
  /\ pc[t] = "idle"
  /\ Len(stack[t]) < MaxDepth
  /\ stack' = [stack EXCEPT ![t] = <<f>> \o @]
  /\ last' = [last EXCEPT ![t] = NoCapture]
  /\ UNCHANGED <<FLAG_lazy_async_stacks, to_space, pc, callVars, eagerVars,
                 arrayVars, listVars, walkVars, copyVars, snapshot>>

Return(t) ==
  /\ ~Aborted
  /\ pc[t] = "idle"
  /\ Len(stack[t]) > 0
  /\ stack' = [stack EXCEPT ![t] = Tail(@)]
  /\ last' = [last EXCEPT ![t] = NoCapture]
  /\ UNCHANGED <<FLAG_lazy_async_stacks, to_space, pc, callVars, eagerVars,
                 arrayVars, listVars, walkVars, copyVars, snapshot>>

\* The configuration changes between captures; a capture reads it when it starts.
SetFlag ==
  /\ ~Aborted
  /\ FLAG_lazy_async_stacks' = ~FLAG_lazy_async_stacks
  /\ UNCHANGED <<to_space, stack, pc, callVars, eagerVars, arrayVars, listVars,
                 walkVars, copyVars, outVars>>

\* The relocating collector: it runs only while no thread is inside a
\* NoSafepointScope, and moves every live heap object to the other semispace.
\* Handles follow the objects; raw addresses taken before do not.  It never
\* touches a thread's frames.
Scavenge ==
  /\ ~Aborted
  /\ \A t \in Threads : no_safepoint_scope_depth[t] = 0
  /\ to_space' = 1 - to_space
  /\ UNCHANGED <<FLAG_lazy_async_stacks, stack, pc, callVars, eagerVars, arrayVars,
                 listVars, walkVars, copyVars, outVars>>

\* ------------------------------------------------------------ entry points
\* Mutant: a cached pointer to the first thread instead of the calling one.
ThreadCurrentMain(t) == 1

\* Thread::Current()
ThreadCurrent(t) == t

\* CurrentSyncStackTrace(thread, skip_frames): starts the two-pass capture.
CurrentSyncStackTrace(t, th, skip) ==
  /\ strategy' = [strategy EXCEPT ![t] = "eager"]
  /\ thread' = [thread EXCEPT ![t] = th]
  /\ skip_frames' = [skip_frames EXCEPT ![t] = skip]
  /\ Goto(t, "count")

\* CurrentSyncStackTraceLazy(thread, skip_frames): starts the one-pass capture.
CurrentSyncStackTraceLazy(t, th, skip) ==
  /\ strategy' = [strategy EXCEPT ![t] = "lazy"]
  /\ thread' = [thread EXCEPT ![t] = th]
  /\ skip_frames' = [skip_frames EXCEPT ![t] = skip]
  /\ Goto(t, "lazy_collect")

\* CurrentStackTrace(thread, for_async_function, skip_frames)
CurrentStackTrace(t, th, for_async_function, skip) ==
  IF FLAG_lazy_async_stacks
  THEN CurrentSyncStackTraceLazy(t, th, skip)
  ELSE CurrentSyncStackTrace(t, th, skip)

\* Mutant: the skip argument left to its default.
GetStackTraceForExceptionDefaultSkip(t) ==
  /\ ~Aborted
  /\ pc[t] = "idle"
  /\ entry' = [entry EXCEPT ![t] = "exception"]
  /\ CurrentStackTrace(t, ThreadCurrent(t), FALSE, DefaultSkipFrames)
  /\ UNCHANGED <<envVars, eagerVars, arrayVars, listVars, walkVars, copyVars, outVars>>

GetStackTraceForException(t) ==
  /\ ~Aborted
  /\ pc[t] = "idle"
  /\ entry' = [entry EXCEPT ![t] = "exception"]
  /\ CurrentStackTrace(t, ThreadCurrent(t), FALSE, 0)
  /\ UNCHANGED <<envVars, eagerVars, arrayVars, listVars, walkVars, copyVars, outVars>>

\* Mutant: the wrapper's own frame not skipped.
StackTrace_currentNoSkip(t) ==
  /\ ~Aborted
  /\ pc[t] = "idle"
  /\ entry' = [entry EXCEPT ![t] = "current"]
  /\ CurrentStackTrace(t, t, FALSE, 0)
  /\ UNCHANGED <<envVars, eagerVars, arrayVars, listVars, walkVars, copyVars, outVars>>

\* DEFINE_NATIVE_ENTRY(StackTrace_current, 0, 0): `thread` is the calling thread.
StackTrace_current(t) ==
  /\ ~Aborted
  /\ pc[t] = "idle"
  /\ entry' = [entry EXCEPT ![t] = "current"]
  /\ CurrentStackTrace(t, t, FALSE, DefaultSkipFrames)
  /\ UNCHANGED <<envVars, eagerVars, arrayVars, listVars, walkVars, copyVars, outVars>>

\* A call of the file-static CurrentStackTrace with any skip count: the two
\* strategies it selects between take the skip count as a parameter.
CurrentStackTraceWith(t, skip) ==
  /\ ~Aborted
  /\ pc[t] = "idle"
  /\ entry' = [entry EXCEPT ![t] = "direct"]
  /\ CurrentStackTrace(t, t, FALSE, skip)
  /\ UNCHANGED <<envVars, eagerVars, arrayVars, listVars, walkVars, copyVars, outVars>>

\* GetCurrentStackTrace(skip_frames) up to its call of AppendFrames.
GetCurrentStackTrace(t, skip) ==
  /\ ~Aborted
  /\ pc[t] = "idle"
  /\ entry' = [entry EXCEPT ![t] = "explicit"]
  /\ strategy' = [strategy EXCEPT ![t] = "explicit"]
  /\ thread' = [thread EXCEPT ![t] = ThreadCurrent(t)]
  /\ skip_frames' = [skip_frames EXCEPT ![t] = skip]
  /\ code_list' = [code_list EXCEPT ![t] = <<>>]
  /\ pc_offset_list' = [pc_offset_list EXCEPT ![t] = <<>>]
  /\ Goto(t, "append_first")
  /\ UNCHANGED <<envVars, eagerVars, arrayVars, walkVars, copyVars, outVars>>

\* ------------------------------------------------- CurrentSyncStackTrace
\* Mutant: the counting pass forgets the skip count.
CountedLengthNoSkip(t) == CountFrames(stack[thread[t]], 0)

\* stack_trace_length = CountFrames(thread, skip_frames, ...)
CountedLength(t) == CountFrames(stack[thread[t]], skip_frames[t])

CountStep(t) ==
  /\ ~Aborted
  /\ pc[t] = "count"
  /\ stack_trace_length' = [stack_trace_length EXCEPT ![t] = CountedLength(t)]
  /\ Goto(t, "alloc_code")
  /\ UNCHANGED <<envVars, callVars, collected_frames_count, arrayVars, listVars,
                 walkVars, copyVars, outVars>>

\* code_array = Array::New(stack_trace_length)
AllocCodeArray(t) ==
  /\ ~Aborted
  /\ pc[t] = "alloc_code"
  /\ code_array' = [code_array EXCEPT ![t] = ArrayNew(stack_trace_length[t])]
  /\ Goto(t, "alloc_pc")
  /\ UNCHANGED <<envVars, callVars, eagerVars, pc_offset_array, listVars, walkVars,
                 copyVars, outVars>>

\* pc_offset_array = TypedData::New(kUintPtrCid, stack_trace_length)
AllocPcOffsetArray(t) ==
  /\ ~Aborted
  /\ pc[t] = "alloc_pc"
  /\ pc_offset_array' = [pc_offset_array EXCEPT ![t] = TypedDataNew(stack_trace_length[t])]
  /\ Goto(t, "collect")
  /\ UNCHANGED <<envVars, callVars, eagerVars, code_array, listVars, walkVars,
                 copyVars, outVars>>

\* CollectFrames(thread, code_array, pc_offset_array, 0, stack_trace_length, skip_frames)
Collected(t) ==
  CollectFrames(stack[thread[t]], code_array[t], pc_offset_array[t], 0,
                stack_trace_length[t], skip_frames[t])

CollectStep(t) ==
  /\ ~Aborted
  /\ pc[t] = "collect"
  /\ code_array' = [code_array EXCEPT ![t] = Collected(t).code_array]
  /\ pc_offset_array' = [pc_offset_array EXCEPT ![t] = Collected(t).pc_offset_array]
  /\ collected_frames_count' =
       [collected_frames_count EXCEPT ![t] = Collected(t).collected]
  /\ Goto(t, "assert")
  /\ UNCHANGED <<envVars, callVars, stack_trace_length, listVars, walkVars,
                 copyVars, outVars>>

\* ASSERT(collected_frames_count == stack_trace_length)
AssertCollected(t) ==
  /\ ~Aborted
  /\ pc[t] = "assert"
  /\ IF collected_frames_count[t] = stack_trace_length[t]
     THEN Goto(t, "st_new")
     ELSE Goto(t, "fatal")
  /\ UNCHANGED <<envVars, callVars, eagerVars, arrayVars, listVars, walkVars,
                 copyVars, outVars>>

\* return StackTrace::New(code_array, pc_offset_array): the snapshot holds the
\* two arrays as they are when it is made.
StackTraceNew(t) ==
  /\ ~Aborted
  /\ pc[t] = "st_new"
  /\ snapshot' = [snapshot EXCEPT ![t] =
       [code_array |-> code_array[t], pc_offset_array |-> pc_offset_array[t]]]
  /\ Goto(t, "done")
  /\ UNCHANGED <<envVars, callVars, eagerVars, arrayVars, listVars, walkVars,
                 copyVars, last>>

\* ---------------------------------------------- CurrentSyncStackTraceLazy
\* Mutant: the one-pass collection forgets the skip count.
LazyCollectedNoSkip(t) == CollectFramesLazy(stack[thread[t]], <<>>, <<>>, 0)

\* GrowableObjectArray::New(kDefaultStackAllocation), an empty GrowableArray,
\* then CollectFramesLazy(thread, code_array, &pc_offset_array, skip_frames).
LazyCollected(t) == CollectFramesLazy(stack[thread[t]], <<>>, <<>>, skip_frames[t])

LazyCollect(t) ==
  /\ ~Aborted
  /\ pc[t] = "lazy_collect"
  /\ code_list' = [code_list EXCEPT ![t] = LazyCollected(t).code_list]
  /\ pc_offset_list' = [pc_offset_list EXCEPT ![t] = LazyCollected(t).pc_offset_list]
  /\ Goto(t, "make_fixed")
  /\ UNCHANGED <<envVars, callVars, eagerVars, arrayVars, walkVars, copyVars, outVars>>

\* ------------------------------------------------- CreateStackTraceObject
\* code_array = Array::MakeFixedLength(code_list)
MakeFixedLength(t) ==
  /\ ~Aborted
  /\ pc[t] = "make_fixed"
  /\ code_array' = [code_array EXCEPT ![t] = code_list[t]]
  /\ Goto(t, "td_new")
  /\ UNCHANGED <<envVars, callVars, eagerVars, pc_offset_array, listVars, walkVars,
                 copyVars, outVars>>

\* pc_offset_array = TypedData::New(kUintPtrCid, pc_offset_list.length())
TypedDataNewStep(t) ==
  /\ ~Aborted
  /\ pc[t] = "td_new"
  /\ pc_offset_array' = [pc_offset_array EXCEPT ![t] = TypedDataNew(Len(pc_offset_list[t]))]
  /\ Goto(t, "scope_enter")
  /\ UNCHANGED <<envVars, callVars, eagerVars, code_array, listVars, walkVars,
                 copyVars, outVars>>

\* Mutant: the copy runs outside any NoSafepointScope.
NoSafepointEnterNoop(t) == no_safepoint_scope_depth[t]

\* NoSafepointScope's constructor and destructor.
NoSafepointEnter(t) == no_safepoint_scope_depth[t] + 1
NoSafepointExit(t) == no_safepoint_scope_depth[t] - 1

\* pc_offset_array.DataAddr(0): the raw address of the object's payload now.
DataAddr(t) == to_space

\* `NoSafepointScope no_safepoint;` then memmove's arguments are evaluated.
EnterScope(t) ==
  /\ ~Aborted
  /\ pc[t] = "scope_enter"
  /\ no_safepoint_scope_depth' = [no_safepoint_scope_depth EXCEPT ![t] = NoSafepointEnter(t)]
  /\ raw_dst' = [raw_dst EXCEPT ![t] = DataAddr(t)]
  /\ copied' = [copied EXCEPT ![t] = 0]
  /\ Goto(t, "memmove")
  /\ UNCHANGED <<envVars, callVars, eagerVars, arrayVars, listVars, walkVars, outVars>>

\* memmove copies one word: to the raw destination address.  If the object has
\* been moved since that address was taken, the word lands in the abandoned
\* copy and the object does not receive it.
MemmoveWord(t) ==
  /\ ~Aborted
  /\ pc[t] = "memmove"
  /\ copied[t] < Len(pc_offset_list[t])
  /\ pc_offset_array' =
       IF raw_dst[t] = DataAddr(t)
       THEN [pc_offset_array EXCEPT ![t][copied[t] + 1] = pc_offset_list[t][copied[t] + 1]]
       ELSE pc_offset_array
  /\ copied' = [copied EXCEPT ![t] = @ + 1]
  /\ UNCHANGED <<envVars, pc, callVars, eagerVars, code_array, listVars, walkVars,
                 raw_dst, no_safepoint_scope_depth, outVars>>

\* memmove returns and the scope closes.
ExitScope(t) ==
  /\ ~Aborted
  /\ pc[t] = "memmove"
  /\ copied[t] = Len(pc_offset_list[t])
  /\ no_safepoint_scope_depth' = [no_safepoint_scope_depth EXCEPT ![t] = NoSafepointExit(t)]
  /\ Goto(t, "st_new")
  /\ UNCHANGED <<envVars, callVars, eagerVars, arrayVars, listVars, walkVars,
                 raw_dst, copied, outVars>>

\* ----------------------------------------------------------- AppendFrames
\* ASSERT(frame != NULL)
FirstFrameAssert(s, i) == i # NULL

\* frames(..., thread, ...); frame = frames.NextFrame(); ASSERT(frame != NULL);
AppendFramesFirst(t) ==
  /\ ~Aborted
  /\ pc[t] = "append_first"
  /\ frame' = [frame EXCEPT ![t] = NextFrame(stack[thread[t]], 0)]
  /\ af_skip' = [af_skip EXCEPT ![t] = skip_frames[t]]
  /\ IF FirstFrameAssert(stack[thread[t]], NextFrame(stack[thread[t]], 0))
     THEN Goto(t, "append_loop")
     ELSE Goto(t, "fatal")
  /\ UNCHANGED <<envVars, callVars, eagerVars, arrayVars, listVars, copyVars, outVars>>

\* Mutant: the loop body without its skip branch.
AppendFrameIgnoresSkip(f, skip, codes, offs) ==
  IF ~IsDartFrame(f) THEN [skip |-> skip, codes |-> codes, offs |-> offs]
  ELSE [skip |-> skip,
        codes |-> Append(codes, LookupDartCode(f)),
        offs |-> Append(offs, PcOffset(f))]

\* Mutant: the code reference is added before the skip count is looked at.
AppendFrameAddsCodeFirst(f, skip, codes, offs) ==
  IF ~IsDartFrame(f) THEN [skip |-> skip, codes |-> codes, offs |-> offs]
  ELSE IF skip > 0
  THEN [skip |-> skip - 1, codes |-> Append(codes, LookupDartCode(f)), offs |-> offs]
  ELSE [skip |-> skip,
        codes |-> Append(codes, LookupDartCode(f)),
        offs |-> Append(offs, PcOffset(f))]

\* Mutant: the skip count is taken off before the frame is tested, so frames
\* that are not Dart frames consume it too.
AppendFrameSkipsAnyFrame(f, skip, codes, offs) ==
  IF skip > 0 THEN [skip |-> skip - 1, codes |-> codes, offs |-> offs]
  ELSE IF ~IsDartFrame(f) THEN [skip |-> skip, codes |-> codes, offs |-> offs]
  ELSE [skip |-> skip,
        codes |-> Append(codes, LookupDartCode(f)),
        offs |-> Append(offs, PcOffset(f))]

\* One pass of the loop body on frame f: the skip count left and the two lists.
AppendFrame(f, skip, codes, offs) ==
  IF ~IsDartFrame(f) THEN [skip |-> skip, codes |-> codes, offs |-> offs]
  ELSE IF skip > 0 THEN [skip |-> skip - 1, codes |-> codes, offs |-> offs]
  ELSE [skip |-> skip,
        codes |-> Append(codes, LookupDartCode(f)),
        offs |-> Append(offs, PcOffset(f))]

\* for (; frame != NULL; frame = frames.NextFrame()) { ... }
AppendFramesLoop(t) ==
  /\ ~Aborted
  /\ pc[t] = "append_loop"
  /\ frame[t] # NULL
  /\ LET r == AppendFrame(stack[thread[t]][frame[t]], af_skip[t],
                          code_list[t], pc_offset_list[t])
     IN /\ af_skip' = [af_skip EXCEPT ![t] = r.skip]
        /\ code_list' = [code_list EXCEPT ![t] = r.codes]
        /\ pc_offset_list' = [pc_offset_list EXCEPT ![t] = r.offs]
  /\ frame' = [frame EXCEPT ![t] = NextFrame(stack[thread[t]], frame[t])]
  /\ UNCHANGED <<envVars, pc, callVars, eagerVars, arrayVars, copyVars, outVars>>

\* The loop ends; GetCurrentStackTrace goes on to CreateStackTraceObject.
AppendFramesExit(t) ==
  /\ ~Aborted
  /\ pc[t] = "append_loop"
  /\ frame[t] = NULL
  /\ Goto(t, "make_fixed")
  /\ UNCHANGED <<envVars, callVars, eagerVars, arrayVars, listVars, walkVars,
                 copyVars, outVars>>

\* ------------------------------------------------------------------ return
\* The capture returns to its caller; its locals go out of scope.  `last`
\* remembers what it was called with and what it returned.
Finish(t) ==
  /\ ~Aborted
  /\ pc[t] = "done"
  /\ last' = [last EXCEPT ![t] =
       [entry |-> entry[t], strategy |-> strategy[t], skip |-> skip_frames[t],
        code_array |-> snapshot[t].code_array,
        pc_offset_array |-> snapshot[t].pc_offset_array]]
  /\ Goto(t, "idle")
  /\ entry' = [entry EXCEPT ![t] = "none"]
  /\ strategy' = [strategy EXCEPT ![t] = "none"]
  /\ thread' = [thread EXCEPT ![t] = t]
  /\ skip_frames' = [skip_frames EXCEPT ![t] = 0]
  /\ stack_trace_length' = [stack_trace_length EXCEPT ![t] = 0]
  /\ collected_frames_count' = [collected_frames_count EXCEPT ![t] = 0]
  /\ code_array' = [code_array EXCEPT ![t] = <<>>]
  /\ pc_offset_array' = [pc_offset_array EXCEPT ![t] = <<>>]
  /\ code_list' = [code_list EXCEPT ![t] = <<>>]
  /\ pc_offset_list' = [pc_offset_list EXCEPT ![t] = <<>>]
  /\ frame' = [frame EXCEPT ![t] = NULL]
  /\ af_skip' = [af_skip EXCEPT ![t] = 0]
  /\ raw_dst' = [raw_dst EXCEPT ![t] = 0]
  /\ copied' = [copied EXCEPT ![t] = 0]
  /\ snapshot' = [snapshot EXCEPT ![t] = NoSnapshot]
  /\ UNCHANGED <<envVars, no_safepoint_scope_depth>>

\* The statements of a running capture.
CaptureStep(t) ==
  \/ CountStep(t)
  \/ AllocCodeArray(t)
  \/ AllocPcOffsetArray(t)
  \/ CollectStep(t)
  \/ AssertCollected(t)
  \/ LazyCollect(t)
  \/ AppendFramesFirst(t)
  \/ AppendFramesLoop(t)
  \/ AppendFramesExit(t)
  \/ MakeFixedLength(t)
  \/ TypedDataNewStep(t)
  \/ EnterScope(t)
  \/ MemmoveWord(t)
  \/ ExitScope(t)
  \/ StackTraceNew(t)

\* One thread, the collector and the configuration.  A failed assertion ends
\* the process: no action is enabled once a thread is at "fatal".
Next ==
  \/ \E t \in MainThread :
       \/ \E f \in FrameKinds : Call(t, f)
       \/ Return(t)
       \/ GetStackTraceForException(t)
       \/ StackTrace_current(t)
       \/ \E k \in 0..MaxSkip : CurrentStackTraceWith(t, k)
       \/ \E k \in 0..MaxSkip : GetCurrentStackTrace(t, k)
       \/ CaptureStep(t)
       \/ Finish(t)
  \/ SetFlag
  \/ Scavenge

Spec == Init /\ [][Next]_vars

\* Two threads, one capture each, and the collector.
NextMT ==
  \/ \E t \in Threads :
       \/ GetStackTraceForException(t)
       \/ StackTrace_current(t)
       \/ \E k \in 0..MaxSkipMT : GetCurrentStackTrace(t, k)
       \/ CaptureStep(t)
  \/ Scavenge

SpecMT == InitMT /\ [][NextMT]_vars


\* ------------------------------------------------------------ properties
\* The managed frames of a stack, innermost first.
Managed(s) == SelectSeq(s, IsDartFrame)
\* A sequence without its first element; the empty sequence stays empty.
DropFirst(q) == IF Len(q) = 0 THEN <<>> ELSE Tail(q)
\* A sequence without its first k elements.
DropN(q, k) == SubSeq(q, k + 1, Len(q))
\* The (code reference, pc offset) pairs of a snapshot, index by index.
Pairs(codes, offs) == [i \in 1..Len(codes) |-> <<codes[i], offs[i]>>]
\* The (code reference, pc offset) pairs of the managed frames of a stack.
FramePairs(s) == [i \in 1..Len(Managed(s)) |-> <<Managed(s)[i].code, Managed(s)[i].pc - PayloadStart(Managed(s)[i].code)>>]
SameSeq(a, b) == Len(a) = Len(b) /\ \A i \in 1..Len(a) : a[i] = b[i]
Synchronous == {"eager", "lazy"}

\* C1: a two-pass (eager) capture and a one-pass (lazy) capture taken with the
\* same skip count k, k no larger than the number of managed frames, on the
\* same stack return snapshots of the same length with the same code reference
\* and the same pc offset at every index.
EagerLazyAgree ==
  \A t \in Threads :
    (/\ pc[t] = "done"
     /\ strategy[t] \in Synchronous
     /\ last[t].strategy \in Synchronous
     /\ last[t].strategy # strategy[t]
     /\ last[t].skip = skip_frames[t]
     /\ skip_frames[t] <= Len(Managed(stack[t])))
    => /\ Len(snapshot[t].code_array) = Len(last[t].code_array)
       /\ Len(snapshot[t].pc_offset_array) = Len(last[t].pc_offset_array)
       /\ SameSeq(snapshot[t].code_array, last[t].code_array)
       /\ SameSeq(snapshot[t].pc_offset_array, last[t].pc_offset_array)

\* A lazy capture with skip 1 has returned the outer of the two managed frames
\* of a stack that also holds a non-managed frame, right after an eager capture
\* with skip 1.
EagerLazyAgreeWitness ==
  /\ pc[1] = "done"
  /\ strategy[1] = "lazy"
  /\ last[1].strategy = "eager"
  /\ last[1].skip = 1
  /\ skip_frames[1] = 1
  /\ Len(snapshot[1].code_array) = 1
  /\ Len(Managed(stack[1])) = 2
  /\ \E i \in 1..Len(stack[1]) : ~IsDartFrame(stack[1][i])

\* C2: every returned snapshot has as many code references as pc offsets, and
\* that many is what CountFrames returns for the same stack and skip count.
LengthsAgree ==
  \A t \in Threads :
    pc[t] = "done"
    => /\ Len(snapshot[t].code_array) = Len(snapshot[t].pc_offset_array)
       /\ Len(snapshot[t].code_array) = CountFrames(stack[t], skip_frames[t])

\* An explicit capture with skip 1 has returned two frames.
LengthsAgreeWitness ==
  /\ pc[1] = "done"
  /\ entry[1] = "explicit"
  /\ skip_frames[1] = 1
  /\ Len(snapshot[1].code_array) = 2
  /\ Len(stack[1]) = 3

ExplicitNeedsManagedFrame ==
  \A t \in Threads :
    (entry[t] = "explicit" /\ pc[t] \notin {"append_first", "fatal"})
    => Len(Managed(stack[t])) >= 1

SkipOneMoreDropsInnermost ==
  \A t \in Threads :
    /\ (/\ pc[t] = "done"
        /\ last[t].entry # "none"
        /\ skip_frames[t] = last[t].skip + 1
        /\ Len(last[t].code_array) > 0)
       => /\ SameSeq(snapshot[t].code_array, Tail(last[t].code_array))
          /\ SameSeq(snapshot[t].pc_offset_array, Tail(last[t].pc_offset_array))
    /\ (/\ pc[t] = "done"
        /\ last[t].entry # "none"
        /\ last[t].skip = skip_frames[t] + 1
        /\ Len(snapshot[t].code_array) > 0)
       => /\ SameSeq(last[t].code_array, Tail(snapshot[t].code_array))
          /\ SameSeq(last[t].pc_offset_array, Tail(snapshot[t].pc_offset_array))

\* Explicit captures with skip 0 and then skip 1 on a stack whose innermost
\* frame is not managed; the second still returns a frame.
SkipOneMoreWitness ==
  /\ pc[1] = "done"
  /\ entry[1] = "explicit"
  /\ last[1].entry = "explicit"
  /\ last[1].skip = 0
  /\ skip_frames[1] = 1
  /\ Len(snapshot[1].code_array) = 1
  /\ Len(stack[1]) > 0
  /\ ~IsDartFrame(stack[1][1])

\* C7: StackTrace_current returns the managed frames of the stack, innermost
\* first, without the innermost one: the exception-context capture of the same
\* stack without its first entry.
CurrentSkipsOne ==
  \A t \in Threads :
    (pc[t] = "done" /\ entry[t] = "current")
    => /\ SameSeq(Pairs(snapshot[t].code_array, snapshot[t].pc_offset_array),
                  DropFirst(FramePairs(stack[t])))
       /\ last[t].entry = "exception"
          => /\ SameSeq(snapshot[t].code_array, DropFirst(last[t].code_array))
             /\ SameSeq(snapshot[t].pc_offset_array, DropFirst(last[t].pc_offset_array))

\* StackTrace_current has returned two frames right after an exception-context
\* capture of the same stack.
CurrentSkipsOneWitness ==
  /\ pc[1] = "done"
  /\ entry[1] = "current"
  /\ last[1].entry = "exception"
  /\ Len(last[1].code_array) = 3
  /\ Len(snapshot[1].code_array) = 2

\* C8: from the counting pass to the assertion the stack still has the shape
\* that was counted, the collecting pass writes as many frames as were counted,
\* and the eager capture never fails its assertion.
CountAndCollectAgree ==
  \A t \in Threads :
    /\ pc[t] \in {"alloc_code", "alloc_pc", "collect", "assert"}
       => stack_trace_length[t] = Len(DropN(Managed(stack[t]), skip_frames[t]))
    /\ pc[t] = "assert" => collected_frames_count[t] = stack_trace_length[t]
    /\ strategy[t] = "eager" => pc[t] # "fatal"

\* The eager capture stands at its assertion with two frames collected, the
\* collector having run.
CountAndCollectWitness ==
  /\ pc[1] = "assert"
  /\ collected_frames_count[1] = 2
  /\ skip_frames[1] = 1
  /\ to_space = 1

\* C9: while memmove runs, the thread is inside the NoSafepointScope and the
\* destination has not moved since its address was taken; once the copy has
\* ended the TypedData holds the source offsets, index by index.
CopyIsVerbatim ==
  \A t \in Threads :
    /\ pc[t] = "memmove"
       => /\ no_safepoint_scope_depth[t] > 0
          /\ raw_dst[t] = DataAddr(t)
          /\ \A i \in 1..copied[t] : pc_offset_array[t][i] = pc_offset_list[t][i]
    /\ (pc[t] \in {"st_new", "done"} /\ strategy[t] \in {"lazy", "explicit"})
       => SameSeq(pc_offset_array[t], pc_offset_list[t])

\* A two-word copy has ended in the semispace the collector moved objects to.
CopyIsVerbatimWitness ==
  /\ pc[1] = "st_new"
  /\ strategy[1] = "lazy"
  /\ copied[1] = 2
  /\ pc_offset_array[1][1] # pc_offset_array[1][2]
  /\ to_space = 1

\* C10: with two threads capturing concurrently, each capture walks its own
\* thread's stack and returns what that stack and its skip count determine.
CapturesAreIsolated ==
  \A t \in Threads :
    /\ pc[t] # "idle" => thread[t] = t
    /\ pc[t] = "done"
       => SameSeq(Pairs(snapshot[t].code_array, snapshot[t].pc_offset_array),
                  DropN(FramePairs(stack[t]), skip_frames[t]))

\* Thread 1 has returned two frames while thread 2 is halfway through its copy.
CapturesAreIsolatedWitness ==
  /\ pc[1] = "done"
  /\ Len(snapshot[1].code_array) = 2
  /\ pc[2] = "memmove"
  /\ copied[2] = 1
  /\ Len(pc_offset_list[2]) = 2

====
